---- MODULE Spec2Model ----
(***************************************************************************)
(* Talentfinder: two Streamlit scripts over pandas tables.                 *)
(*   talentfinder.py     marks entry: total marks, Rank, merge with the    *)
(*                       master data, Excel download                       *)
(*   talentfinderpro.py  points dashboard: grouped top-5                   *)
(* A table is a sequence of rows, a row a record of cells.  A cell is a    *)
(* natural number, NaN (an empty cell) or Text (a cell holding a string).  *)
(***************************************************************************)
EXTENDS Integers, Sequences, FiniteSets

VARIABLES
    event_name,   \* the text input "Enter Event Name"
    marks_file,   \* the uploaded marks sheet as read_excel returns it, or None
    master_file,  \* the uploaded master sheet, or None
    edited_df,    \* the rows of the data editor: the sheet, the added columns, the edits
    result_df,    \* result_df of the latest run, or None
    download,     \* the file the download button of the latest run offers, or None
    errors,       \* the st.error messages of the latest run
    steps,        \* what the latest run called: "calc", "merge", "export"
    button,       \* the button pressed for the latest run, or "none"
    \* talentfinderpro.py
    uploaded_file,   \* the uploaded points sheet, or None
    category,        \* the select box
    top_performers,  \* the table the latest run shows, or None
    excel_data,      \* the 'Top Performers' sheet the download button offers, or None
    pro_status       \* "idle", "ok", or "uncaught": the run ended in an exception

marks_vars == <<event_name, marks_file, master_file, edited_df, result_df,
                download, errors, steps, button>>
pro_vars == <<uploaded_file, category, top_performers, excel_data, pro_status>>
vars == <<marks_vars, pro_vars>>

(* ---------------- bounds of the model ---------------- *)
\* rows of a marks sheet uploaded in a session
MaxRows == 2
\* the marks the editor enters are 0..MaxMark
MaxMark == 1
\* mark cells of the editor that differ from the uploaded sheet
MaxEdits == 1
\* rows of a table handed to calculate_total_and_rank on its own
MaxCalcRows == 3
\* rows of a points sheet after its roster rows
MaxTail == 1
\* the Points of such a row are 1..MaxPoints
MaxPoints == 2

(* ---------------- cells ---------------- *)
\* np.nan: an empty cell, and the value of every added column.
NaN == -1
\* a cell of an uploaded sheet that holds a string instead of a number
Text == -2
\* an optional value: Python's None, or a value that is there
None == [some |-> FALSE]
Some(x) == [some |-> TRUE, val |-> x]

\* fillna left out: an empty mark stays empty
fillna0_absent(v) == v

\* Series.fillna(0)
fillna0(v) == IF v = NaN THEN 0 ELSE v

Marks == 0..MaxMark
MarkCells == {NaN} \cup Marks

(* ---------------- calculate_total_and_rank ---------------- *)
\* + that raises nothing
AddRaises_never(a, b) == FALSE

\* Python's + on two cells of a row: str + number raises TypeError.
AddRaises(a, b) == (a = Text) # (b = Text)
Add(a, b) == IF a = Text THEN Text ELSE a + b

\* line 9, one row: mark1.fillna(0) + mark2.fillna(0) + mark3.fillna(0)
TotalRaises(r) ==
    \/ AddRaises(fillna0(r.mark1), fillna0(r.mark2))
    \/ AddRaises(Add(fillna0(r.mark1), fillna0(r.mark2)), fillna0(r.mark3))

Total(r) == Add(Add(fillna0(r.mark1), fillna0(r.mark2)), fillna0(r.mark3))

\* only the empty 'total marks' cells are filled in
WithTotals_fill(df) ==
    [i \in 1..Len(df) |->
        IF df[i].total_marks = NaN
        THEN [df[i] EXCEPT !.total_marks = Total(df[i])] ELSE df[i]]

\* line 9, the column assignment: every row's 'total marks' is replaced.
\* (The assignment also writes into the caller's edited_df; the next run
\* builds edited_df anew from the sheet and the edits, so nothing reads it.)
WithTotals(df) ==
    [i \in 1..Len(df) |-> [df[i] EXCEPT !.total_marks = Total(df[i])]]

\* sort_values(by=col, ascending=False) with the default kind='quicksort',
\* which is not a stable sort: the result is some ordering of the rows with
\* non-increasing values, the order among equal values being the build's.
RECURSIVE SortDesc(_, _, _)
SortDesc(df, col, idx) ==
    IF idx = {} THEN {<<>>}
    ELSE UNION { { <<df[i]>> \o t : t \in SortDesc(df, col, idx \ {i}) } :
                 i \in {j \in idx : \A k \in idx : df[k][col] <= df[j][col]} }

\* sort_values compares the values: a column mixing str and numbers raises.
SortRaises(df, col) ==
    \E i, j \in 1..Len(df) : (df[i][col] = Text) # (df[j][col] = Text)

\* rank(method='first') in place of method='min'
RankMin_first(sorted, i) == i

\* line 15: rank(method='min', ascending=False): the values are ordered from
\* the largest down, and a row gets the lowest position of its tie group.
RankMin(sorted, i) ==
    CHOOSE p \in 1..Len(sorted) :
        /\ sorted[p].total_marks = sorted[i].total_marks
        /\ \A q \in 1..(p - 1) : sorted[q].total_marks # sorted[i].total_marks

WithRanks(sorted) ==
    [i \in 1..Len(sorted) |-> [sorted[i] EXCEPT !.Rank = RankMin(sorted, i)]]

CalcRaises(df) ==
    \/ \E i \in 1..Len(df) : TotalRaises(df[i])
    \/ SortRaises(WithTotals(df), "total_marks")

\* the set of tables calculate_total_and_rank(df) can return
calculate_total_and_rank(df) ==
    { WithRanks(s) : s \in SortDesc(WithTotals(df), "total_marks", 1..Len(df)) }

(* ---------------- merge_with_master_data ---------------- *)
\* pd.merge(master_df, marks_df[[...]], on='Chest No', how='right'): every
\* row of the right table in its order; joined to each master row with an
\* equal key (NaN keys are equal to each other), or to empty cells.
Joined(m, r) ==
    [Chest_No |-> r.Chest_No, Name |-> m.Name, mark1 |-> r.mark1,
     mark2 |-> r.mark2, mark3 |-> r.mark3, total_marks |-> r.total_marks,
     Rank |-> r.Rank]

RECURSIVE Matches(_, _, _)
Matches(master, r, i) ==
    IF i > Len(master) THEN <<>>
    ELSE (IF master[i].Chest_No = r.Chest_No
          THEN <<Joined(master[i], r)>> ELSE <<>>)
         \o Matches(master, r, i + 1)

\* how='inner' in place of how='right'
RightRow_inner(master, r) == Matches(master, r, 1)

RightRow(master, r) ==
    IF Matches(master, r, 1) = <<>>
    THEN <<Joined([Name |-> NaN], r)>>
    ELSE Matches(master, r, 1)

RECURSIVE RightJoin(_, _, _)
RightJoin(master, marks, i) ==
    IF i > Len(marks) THEN <<>>
    ELSE RightRow(master, marks[i]) \o RightJoin(master, marks, i + 1)

\* line 22
HasChestNo(marks_cols, master_cols) ==
    "Chest_No" \in marks_cols /\ "Chest_No" \in master_cols

\* the tables merge_with_master_data can return when line 22 holds
merge_with_master_data(marks_df, master_df) ==
    LET j == RightJoin(master_df, marks_df, 1)
    IN  SortDesc(j, "total_marks", 1..Len(j))

(* ---------------- main: the uploaded sheets ---------------- *)
required_columns == {"Chest_No", "mark1", "mark2", "mark3", "total_marks", "Rank"}

\* a value left in a 'total marks' or 'Rank' cell of an uploaded sheet
Stale == 7

\* The sheets the model uploads: 1..MaxRows rows, row i with Chest No
\* ChestOf(i), the mark1 cells all empty or all text, mark2 and mark3 empty,
\* 'total marks' and 'Rank' filled in (Stale) where the sheet has them.
ChestOf(i) == ((i - 1) % 2) + 1

ColumnSets ==
    { required_columns,
      required_columns \ {"Chest_No"},
      required_columns \ {"mark1", "total_marks", "Rank"} }

SheetCell(c, i, m1) ==
    CASE c = "Chest_No" -> ChestOf(i)
      [] c = "mark1" -> m1
      [] c \in {"mark2", "mark3"} -> NaN
      [] OTHER -> Stale

MarksSheets ==
    { [columns |-> cols, rows |-> [i \in 1..n |-> [c \in cols |-> SheetCell(c, i, m1)]]] :
        cols \in ColumnSets, n \in 1..MaxRows, m1 \in {NaN, Text} }

MasterSheets ==
    { [columns |-> {"Name"},
       rows |-> <<[Name |-> 11]>>],
      [columns |-> {"Chest_No", "Name"},
       rows |-> <<[Chest_No |-> 1, Name |-> 11], [Chest_No |-> 3, Name |-> 13]>>] }

EventNames == {"", "E"}

\* lines 59-65: the columns the sheet lacks are added, filled with NaN
AddMissing(sheet) ==
    [i \in 1..Len(sheet.rows) |->
        [c \in required_columns |->
            IF c \in sheet.columns THEN sheet.rows[i][c] ELSE NaN]]

\* the st.error calls
ErrGeneric == {"An error occurred", "Please make sure your Excel files have the correct format"}
ErrEventName == {"Please enter an event name before downloading"}
ErrChestNo == {"Chest No column not found in one or both files"}

MarkColumns == {"mark1", "mark2", "mark3"}

\* the mark cells of the editor that differ from the uploaded sheet
Edited(df, sheet) ==
    {<<i, c>> \in (1..Len(df)) \X MarkColumns : df[i][c] # AddMissing(sheet)[i][c]}

(* ---------------- main: one action per run of the script ---------------- *)
\* A run in which no button is pressed shows the editor and nothing else.
NoOutput ==
    /\ result_df' = None
    /\ download' = None
    /\ errors' = {}
    /\ steps' = {}
    /\ button' = "none"

ProIdle ==
    /\ uploaded_file = None
    /\ category = "Student"
    /\ top_performers = None
    /\ excel_data = None
    /\ pro_status = "idle"

MarksIdle ==
    /\ event_name = ""
    /\ marks_file = None
    /\ master_file = None
    /\ edited_df = <<>>
    /\ result_df = None
    /\ download = None
    /\ errors = {}
    /\ steps = {}
    /\ button = "none"

MarksInit == MarksIdle /\ ProIdle

\* line 42
EnterEventName(e) ==
    /\ e # event_name
    /\ event_name' = e
    /\ NoOutput
    /\ UNCHANGED <<marks_file, master_file, edited_df, pro_vars>>

\* lines 49, 57-65; a session works on one uploaded marks sheet
UploadMarks(sheet) ==
    /\ marks_file = None
    /\ marks_file' = Some(sheet)
    /\ edited_df' = AddMissing(sheet)
    /\ NoOutput
    /\ UNCHANGED <<event_name, master_file, pro_vars>>

\* line 53
UploadMaster(sheet) ==
    /\ master_file = None
    /\ master_file' = Some(sheet)
    /\ NoOutput
    /\ UNCHANGED <<event_name, marks_file, edited_df, pro_vars>>

\* lines 69-93: the editor changes one mark cell to a number or clears it;
\* "Chest No", "total marks" and "Rank" are disabled.
EditMark(i, c, v) ==
    /\ marks_file.some
    /\ i \in 1..Len(edited_df)
    /\ edited_df[i][c] # v
    /\ LET df == [edited_df EXCEPT ![i][c] = v]
       IN  /\ Cardinality(Edited(df, marks_file.val)) <= MaxEdits
           /\ edited_df' = df
    /\ NoOutput
    /\ UNCHANGED <<event_name, marks_file, master_file, pro_vars>>

\* lines 136-138: the except clause of main
Caught ==
    /\ errors' = ErrGeneric
    /\ result_df' = None
    /\ download' = None

\* lines 95-99
PressCalculate ==
    /\ marks_file.some
    /\ button' = "Calculate Result"
    /\ steps' = {"calc"}
    /\ IF CalcRaises(edited_df)
       THEN Caught
       ELSE /\ \E r \in calculate_total_and_rank(edited_df) : result_df' = Some(r)
            /\ download' = None
            /\ errors' = {}
    /\ UNCHANGED <<event_name, marks_file, master_file, edited_df, pro_vars>>

\* line 57 and lines 64-65: the columns of marks_df after the missing ones are added
marks_columns(sheet) ==
    sheet.columns \cup {c \in required_columns : c \notin sheet.columns}

\* lines 122-134
Export(final_df, merged) ==
    Some([file_name |-> event_name, merged |-> merged, rows |-> final_df])

\* the check of line 103 left out
not_event_name_never(name) == FALSE

\* line 103: not event_name
not_event_name(name) == name = ""

\* lines 101-134
PressDownload ==
    /\ marks_file.some
    /\ button' = "Download Result"
    /\ IF not_event_name(event_name)
       THEN /\ errors' = ErrEventName
            /\ result_df' = None
            /\ download' = None
            /\ steps' = {}
       ELSE IF CalcRaises(edited_df)
       THEN Caught /\ steps' = {"calc"}
       ELSE \E r \in calculate_total_and_rank(edited_df) :
            /\ result_df' = Some(r)
            /\ IF master_file # None
               THEN IF HasChestNo(marks_columns(marks_file.val), master_file.val.columns)
                    THEN /\ \E f \in merge_with_master_data(r, master_file.val.rows) :
                                download' = Export(f, TRUE)
                         /\ errors' = {}
                         /\ steps' = {"calc", "merge", "export"}
                    ELSE /\ download' = None
                         /\ errors' = ErrChestNo
                         /\ steps' = {"calc", "merge"}
               ELSE /\ download' = Export(r, FALSE)
                    /\ errors' = {}
                    /\ steps' = {"calc", "export"}
    /\ UNCHANGED <<event_name, marks_file, master_file, edited_df, pro_vars>>

MarksNext ==
    \/ \E e \in EventNames : EnterEventName(e)
    \/ \E sheet \in MarksSheets : UploadMarks(sheet)
    \/ \E sheet \in MasterSheets : UploadMaster(sheet)
    \/ \E i \in 1..MaxRows, c \in MarkColumns, v \in MarkCells : EditMark(i, c, v)
    \/ PressCalculate
    \/ PressDownload

Spec == MarksInit /\ [][MarksNext]_vars

(* ---------------- calculate_total_and_rank on its own ---------------- *)
\* The tables handed to the function: row i has Chest No i, mark1 is empty,
\* 0 or the top mark, mark2 and mark3 are empty or the top mark, and the
\* 'total marks' and 'Rank' cells are empty.
CalcRows ==
    { [Chest_No |-> 0, mark1 |-> m1, mark2 |-> m2, mark3 |-> m3,
       total_marks |-> NaN, Rank |-> NaN] :
        m1 \in {NaN, 0, MaxMark}, m2 \in {NaN, MaxMark}, m3 \in {NaN, MaxMark} }

CalcTables ==
    { [i \in 1..Len(t) |-> [t[i] EXCEPT !.Chest_No = i]] :
        t \in UNION { [1..n -> CalcRows] : n \in 0..MaxCalcRows } }

CalcInit ==
    /\ ProIdle
    /\ event_name = "E"
    /\ \E t \in CalcTables :
          /\ marks_file = Some([columns |-> required_columns, rows |-> t])
          /\ edited_df = t
    /\ master_file = None
    /\ result_df = None
    /\ download = None
    /\ errors = {}
    /\ steps = {}
    /\ button = "none"

CalcNext == PressCalculate

SpecCalc == CalcInit /\ [][CalcNext]_vars

(* ---------------- talentfinderpro.py: get_top_performers ---------------- *)
\* the default of the parameter n
TopN == 5

Categories == {"Student", "Church", "Section", "Region"}

\* lines 16, 20, 24, 28: the columns the category groups by
GroupColumns(cat) ==
    IF cat = "Student"
    THEN <<"ID_No", "Student_Name", "Church", "Section", "Region">>
    ELSE <<cat>>

KeyOf(row, cols) == [k \in 1..Len(cols) |-> row[cols[k]]]

\* groupby(...) with its defaults dropna=True, sort=True: a row with an
\* empty cell in a key column belongs to no group, and the groups come
\* ordered by key.
GroupKeys(df, cols) ==
    { key \in {KeyOf(df[i], cols) : i \in 1..Len(df)} :
        \A k \in 1..Len(cols) : key[k] # NaN }

RECURSIVE LexLeq(_, _, _)
LexLeq(a, b, k) ==
    IF k > Len(a) THEN TRUE
    ELSE IF a[k] # b[k] THEN a[k] < b[k]
    ELSE LexLeq(a, b, k + 1)

RECURSIVE KeyOrder(_)
KeyOrder(keys) ==
    IF keys = {} THEN <<>>
    ELSE LET first == CHOOSE a \in keys : \A b \in keys : LexLeq(a, b, 1)
         IN  <<first>> \o KeyOrder(keys \ {first})

\* .count() in place of .sum()
RECURSIVE SumPoints_count(_, _, _, _)
SumPoints_count(df, cols, key, i) ==
    IF i > Len(df) THEN 0
    ELSE (IF KeyOf(df[i], cols) = key THEN 1 ELSE 0)
         + SumPoints_count(df, cols, key, i + 1)

\* ['Points'].sum() of one group: empty cells are skipped
RECURSIVE SumPoints(_, _, _, _)
SumPoints(df, cols, key, i) ==
    IF i > Len(df) THEN 0
    ELSE (IF KeyOf(df[i], cols) = key THEN fillna0(df[i].Points) ELSE 0)
         + SumPoints(df, cols, key, i + 1)

\* .reset_index(): one row per group, the key columns and Points
GroupRow(df, cols, key) ==
    [c \in {cols[k] : k \in 1..Len(cols)} \cup {"Points"} |->
        IF c = "Points" THEN SumPoints(df, cols, key, 1)
        ELSE key[CHOOSE k \in 1..Len(cols) : cols[k] = c]]

GroupBySum(df, cols) ==
    LET order == KeyOrder(GroupKeys(df, cols))
    IN  [g \in 1..Len(order) |-> GroupRow(df, cols, order[g])]

\* .head(n) left out
head_all(s, k) == s

\* .head(n)
head(s, k) == SubSeq(s, 1, IF Len(s) < k THEN Len(s) ELSE k)

\* the tables get_top_performers(df, category) can return
get_top_performers(df, cat) ==
    LET g == GroupBySum(df, GroupColumns(cat))
    IN  { head(s, TopN) : s \in SortDesc(g, "Points", 1..Len(g)) }

\* groupby(cols)['Points'] raises KeyError for a column the sheet lacks
GroupRaises(columns, cat) ==
    \E c \in {GroupColumns(cat)[k] : k \in 1..Len(GroupColumns(cat))} \cup {"Points"} :
        c \notin columns

(* ---------------- talentfinderpro.py: the uploaded sheets ---------------- *)
pro_columns == {"ID_No", "Student_Name", "Church", "Section", "Region", "Points"}

\* Participant p of the roster: one ID No, name and Church each.  A sheet
\* starts empty or with the first TopN participants from the last to the
\* first and a second row of participant TopN, and goes on with up to
\* MaxTail further rows.
Roster(p) ==
    [ID_No |-> p, Student_Name |-> 10 + p, Church |-> 20 + p,
     Section |-> 30 + (p % 3), Region |-> 40 + (p % 2), Points |-> p]

\* A further row: any of TopN + 1 participants, its Church cell filled or
\* empty, any Points.
TailRows ==
    { [Roster(p) EXCEPT !.Church = IF blank THEN NaN ELSE @, !.Points = pts] :
        p \in 1..(TopN + 1), blank \in BOOLEAN, pts \in 1..MaxPoints }

ProTables ==
    { pre \o tail :
        pre \in {<<>>, [i \in 1..(TopN + 1) |->
                            Roster(IF i > TopN THEN TopN ELSE TopN + 1 - i)]},
        tail \in UNION { [1..m -> TailRows] : m \in 0..MaxTail } }

ProColumnSets ==
    { pro_columns, pro_columns \ {"Points"}, pro_columns \ {"Region"} }

ProSheets ==
    { [columns |-> cols,
       rows |-> [i \in 1..Len(t) |-> [c \in cols |-> t[i][c]]]] :
        cols \in ProColumnSets, t \in ProTables }

(* ---------------- talentfinderpro.py: one action per run ---------------- *)
\* lines 71-137; nothing catches an exception of the run.  The summary
\* statistics (lines 90-128) are not part of the state.
ProRun(sheet, cat) ==
    IF GroupRaises(sheet.columns, cat)
    THEN /\ pro_status' = "uncaught"
         /\ top_performers' = None
         /\ excel_data' = None
    ELSE /\ pro_status' = "ok"
         /\ \E t \in get_top_performers(sheet.rows, cat) :
               /\ top_performers' = Some(t)
               /\ excel_data' = Some(t)

\* line 69; the select box starts at its first option
UploadPro(sheet) ==
    /\ uploaded_file = None
    /\ uploaded_file' = Some(sheet)
    /\ ProRun(sheet, category)
    /\ UNCHANGED <<category, marks_vars>>

\* lines 76-77
SelectCategory(cat) ==
    /\ uploaded_file.some
    /\ cat # category
    /\ category' = cat
    /\ ProRun(uploaded_file.val, cat)
    /\ UNCHANGED <<uploaded_file, marks_vars>>

ProInit == MarksIdle /\ ProIdle

ProNext ==
    \/ \E sheet \in ProSheets : UploadPro(sheet)
    \/ \E cat \in Categories : SelectCategory(cat)

SpecPro == ProInit /\ [][ProNext]_vars

(* ======================= the claims ======================= *)
\* a mark as the claims count it: a missing mark counts as 0
MarkOrZero(v) == IF v = NaN THEN 0 ELSE v
SumOfMarks(r) == MarkOrZero(r.mark1) + MarkOrZero(r.mark2) + MarkOrZero(r.mark3)

Positions(df) == 1..Len(df)
SameEntry(a, b) ==
    /\ a.Chest_No = b.Chest_No
    /\ a.mark1 = b.mark1 /\ a.mark2 = b.mark2 /\ a.mark3 = b.mark3

\* C1: every row of the table handed to calculate_total_and_rank is in the
\* result, once, with 'total marks' = mark1 + mark2 + mark3 of that row, a
\* missing mark counting as 0.
C1_TotalIsSumOfMarks ==
    result_df.some =>
        /\ Len(result_df.val) = Len(edited_df)
        /\ \A i \in Positions(edited_df) :
              \E j \in Positions(result_df.val) :
                 /\ SameEntry(result_df.val[j], edited_df[i])
                 /\ result_df.val[j].total_marks = SumOfMarks(edited_df[i])

\* a result with a row of three missing marks (total 0) beside a row with
\* three marks present
C1_Witness ==
    /\ result_df.some
    /\ \E i, j \in Positions(result_df.val) :
          /\ result_df.val[i].mark1 = NaN /\ result_df.val[i].mark2 = NaN
          /\ result_df.val[i].mark3 = NaN /\ result_df.val[i].total_marks = 0
          /\ result_df.val[j].mark1 = MaxMark /\ result_df.val[j].mark2 = MaxMark
          /\ result_df.val[j].mark3 = MaxMark
          /\ result_df.val[j].total_marks = 3 * MaxMark

Greater(df, i) == {k \in Positions(df) : df[k].total_marks > df[i].total_marks}

\* C2: in the result of calculate_total_and_rank, Rank(r) = 1 + the number
\* of rows with a strictly greater total; so equal totals share a Rank, a
\* greater total never has a larger Rank, and the highest total has Rank 1.
C2_RankCountsGreaterTotals ==
    result_df.some =>
        LET df == result_df.val IN
        /\ \A i \in Positions(df) : df[i].Rank = 1 + Cardinality(Greater(df, i))
        /\ \A i, j \in Positions(df) :
              /\ df[i].total_marks = df[j].total_marks => df[i].Rank = df[j].Rank
              /\ df[i].total_marks > df[j].total_marks => df[i].Rank <= df[j].Rank
        /\ \A i \in Positions(df) :
              (\A j \in Positions(df) : df[j].total_marks <= df[i].total_marks)
                  => df[i].Rank = 1

\* two rows tied at the top and a third below them: Ranks 1, 1, 3
C2_Witness ==
    /\ result_df.some
    /\ \E i, j, k \in Positions(result_df.val) :
          /\ i # j
          /\ result_df.val[i].Rank = 1 /\ result_df.val[j].Rank = 1
          /\ result_df.val[k].Rank = 3

BothUploaded == marks_file.some /\ master_file.some

\* C3: Download Result with both sheets uploaded and 'Chest No' absent from
\* the uploaded marks sheet or from the uploaded master sheet is rejected: an
\* error is shown, and no merged table and no download is produced.
C3_MergeRejectedWithoutChestNo ==
    ( /\ button = "Download Result"
      /\ BothUploaded
      /\ \/ "Chest_No" \notin marks_file.val.columns
         \/ "Chest_No" \notin master_file.val.columns )
    => (errors # {} /\ download = None)

MasterChestNos ==
    {master_file.val.rows[k].Chest_No : k \in Positions(master_file.val.rows)}

\* C4: when the merge succeeds, every row of the marks table is in the merged
\* table with its marks, total and Rank unchanged, with empty descriptive
\* cells when its Chest No is not in the master sheet; and no Chest No of the
\* master sheet alone is in the merged table.
C4_RightJoinKeepsMarksRows ==
    (download.some /\ download.val.merged) =>
        LET merged == download.val.rows
            marks == result_df.val
        IN  /\ \A i \in Positions(marks) :
                  \E j \in Positions(merged) :
                     /\ SameEntry(merged[j], marks[i])
                     /\ merged[j].total_marks = marks[i].total_marks
                     /\ merged[j].Rank = marks[i].Rank
                     /\ marks[i].Chest_No \notin MasterChestNos
                           => merged[j].Name = NaN
            /\ \A j \in Positions(merged) :
                  \E i \in Positions(marks) :
                     merged[j].Chest_No = marks[i].Chest_No

\* a merged download with a row the master sheet names, a row it does not
\* know, and a master row whose Chest No no marks row has
C4_Witness ==
    /\ download.some /\ download.val.merged
    /\ \E i, j \in Positions(download.val.rows) :
          /\ download.val.rows[i].Name # NaN
          /\ download.val.rows[j].Name = NaN
          /\ download.val.rows[j].Chest_No \notin MasterChestNos
    /\ \E c \in MasterChestNos :
          \A i \in Positions(result_df.val) : result_df.val[i].Chest_No # c

\* a run that reaches the computation: a button was pressed, and Download
\* Result had its event name
Computing ==
    \/ button = "Calculate Result"
    \/ button = "Download Result" /\ event_name # ""

LacksColumn == marks_file.some /\ marks_file.val.columns # required_columns
HasTextMark(r) == \E c \in MarkColumns : r[c] = Text
HasOtherMark(r) == \E c \in MarkColumns : r[c] # Text

C7_NoDownloadWithoutEventName ==
    /\ download.some => (event_name # "" /\ download.val.file_name = event_name)
    /\ (button = "Download Result" /\ event_name = "")
          => /\ errors = ErrEventName
             /\ steps = {}
             /\ result_df = None
             /\ download = None

\* Download Result pressed with both sheets uploaded and no event name
C7_Witness ==
    /\ button = "Download Result"
    /\ event_name = ""
    /\ BothUploaded
    /\ errors = ErrEventName

Count(df, r) == Cardinality({i \in Positions(df) : SameEntry(df[i], r)})

\* the result holds the current rows of the editor, each with the total of
\* its marks and the Rank of that total
FromCurrentMarks ==
    LET df == result_df.val IN
    /\ Len(df) = Len(edited_df)
    /\ \A i \in Positions(edited_df) : Count(df, edited_df[i]) = Count(edited_df, edited_df[i])
    /\ \A j \in Positions(df) :
          /\ df[j].total_marks = SumOfMarks(df[j])
          /\ df[j].Rank = 1 + Cardinality(Greater(df, j))

\* C10, as stated: the result of the latest press is computed from the
\* current marks only, and calculate_total_and_rank applied to it returns
\* the same totals, Ranks and row order.
C10_RecalculationIsIdentity ==
    result_df.some =>
        /\ FromCurrentMarks
        /\ \A again \in calculate_total_and_rank(result_df.val) :
              again = result_df.val

\* C10 amended: ... returns the same rows with the same totals and Ranks,
\* position by position the same total and Rank; rows of equal total may
\* have changed places.
C10_RecalculationKeepsTotalsAndRanks ==
    result_df.some =>
        /\ FromCurrentMarks
        /\ \A again \in calculate_total_and_rank(result_df.val) :
              /\ Len(again) = Len(result_df.val)
              /\ \A j \in Positions(again) :
                    /\ again[j].total_marks = result_df.val[j].total_marks
                    /\ again[j].Rank = result_df.val[j].Rank
                    /\ \E k \in Positions(again) : again[k] = result_df.val[j]

\* a result computed after an edit on a sheet that came with 'total marks'
\* and 'Rank' filled in, two of its rows tied
C10_Witness ==
    /\ result_df.some
    /\ "total_marks" \in marks_file.val.columns
    /\ edited_df # AddMissing(marks_file.val)
    /\ \E i \in Positions(edited_df) : edited_df[i].total_marks = Stale
    /\ \E i, j \in Positions(result_df.val) :
          /\ i # j
          /\ result_df.val[i].total_marks = result_df.val[j].total_marks

(* ---------------- the claims on talentfinderpro.py ---------------- *)
Shown == top_performers.val
Sheet == uploaded_file.val.rows

\* the first row of the sheet that belongs to the group of the shown row g
FirstRow(g) ==
    LET cols == GroupColumns(category)
    IN  CHOOSE i \in Positions(Sheet) :
           /\ KeyOf(Sheet[i], cols) = KeyOf(g, cols)
           /\ \A k \in 1..(i - 1) : KeyOf(Sheet[k], cols) # KeyOf(g, cols)

\* C5, as stated: at most 5 rows, descending by summed Points, groups of
\* equal summed Points in the order of their first rows in the sheet.
C5_TiesInOriginalRowOrder ==
    top_performers.some =>
        /\ Len(Shown) <= 5
        /\ \A i, j \in Positions(Shown) :
              i < j =>
                 \/ Shown[i].Points > Shown[j].Points
                 \/ /\ Shown[i].Points = Shown[j].Points
                    /\ FirstRow(Shown[i]) < FirstRow(Shown[j])

\* C5 amended: at most 5 rows, no row with more summed Points than a row
\* before it.
C5_AtMostFiveNonIncreasing ==
    top_performers.some =>
        /\ Len(Shown) <= 5
        /\ \A i, j \in Positions(Shown) :
              i < j => Shown[i].Points >= Shown[j].Points

\* more than 5 groups, 5 rows shown, two of them with equal summed Points
C5_Witness ==
    /\ top_performers.some
    /\ Len(GroupBySum(Sheet, GroupColumns(category))) > 5
    /\ Len(Shown) = 5
    /\ \E i, j \in Positions(Shown) : i # j /\ Shown[i].Points = Shown[j].Points

\* the Points of all rows of the sheet with value v in column col
RECURSIVE PointsOf(_, _, _)
PointsOf(col, v, rows) ==
    IF rows = {} THEN 0
    ELSE LET i == CHOOSE k \in rows : TRUE
         IN  (IF Sheet[i][col] = v THEN MarkOrZero(Sheet[i].Points) ELSE 0)
             + PointsOf(col, v, rows \ {i})

\* the key values of a column: its distinct cells that are not empty
KeyValues(col) == {Sheet[i][col] : i \in Positions(Sheet)} \ {NaN}

\* C8: for Church, Section and Region the shown rows are the min(5, number of
\* key values) groups with the largest summed Points: each row holds the sum
\* of its key value, no key value comes twice, and no group left out has
\* more Points than a shown one.
C8_TopGroupsBySummedPoints ==
    (top_performers.some /\ category # "Student") =>
        LET col == category
            kept == {Shown[j][col] : j \in Positions(Shown)}
        IN  /\ Len(Shown) = IF Cardinality(KeyValues(col)) < 5
                            THEN Cardinality(KeyValues(col)) ELSE 5
            /\ kept \subseteq KeyValues(col)
            /\ Cardinality(kept) = Len(Shown)
            /\ \A j \in Positions(Shown) :
                  /\ Shown[j].Points = PointsOf(col, Shown[j][col], Positions(Sheet))
                  /\ \A v \in KeyValues(col) \ kept :
                        PointsOf(col, v, Positions(Sheet)) <= Shown[j].Points

\* Church selected on a sheet with 6 churches: 5 shown, one of them the sum
\* of two rows
C8_Witness ==
    /\ top_performers.some
    /\ category = "Church"
    /\ Cardinality(KeyValues("Church")) > 5
    /\ Len(Shown) = 5
    /\ \E j \in Positions(Shown) :
          Cardinality({i \in Positions(Sheet) : Sheet[i].Church = Shown[j].Church}) = 2

\* each ID No carries the same descriptive cells on all of its rows
ConstantWithinID ==
    \A i, j \in Positions(Sheet) :
        Sheet[i].ID_No = Sheet[j].ID_No =>
            \A c \in {"Student_Name", "Church", "Section", "Region"} :
                Sheet[i][c] = Sheet[j][c]

\* C9: for Student, on a sheet whose ID Nos carry constant descriptive cells
\* (empty ones included), every ID No of the sheet has exactly one row in the
\* grouped table before the cut, holding the sum of its Points.
C9_EveryParticipantGrouped ==
    (top_performers.some /\ category = "Student" /\ ConstantWithinID) =>
        LET g == GroupBySum(Sheet, GroupColumns("Student"))
        IN  \A i \in Positions(Sheet) :
               /\ Cardinality({k \in Positions(g) : g[k].ID_No = Sheet[i].ID_No}) = 1
               /\ \A k \in Positions(g) :
                     g[k].ID_No = Sheet[i].ID_No =>
                         g[k].Points = PointsOf("ID_No", Sheet[i].ID_No, Positions(Sheet))

====
